---------------------------- MODULE Spec2Model ----------------------------
(***************************************************************************)
(* Mini-PestMA: the three-stage plant-diagnosis pipeline of                *)
(* src/mini_pestma_main.py (LocalMiniPestMA) and                           *)
(* src/streamlit_optimized_app.py (StreamlitMiniPestMA).                   *)
(*                                                                         *)
(* Texts are sequences of characters over a small alphabet.  A Python str  *)
(* that the program builds from literals is a sequence of chunks, one      *)
(* chunk per literal.  A JSON value is a tagged tuple:                     *)
(*   <<"num", n>>, <<"str", s>>, <<"bool", b>>, <<"obj", pairs>>           *)
(* where pairs is the sequence of <<key, value>> of a dict in insertion    *)
(* order.                                                                  *)
(***************************************************************************)
EXTENDS Integers, Sequences, FiniteSets, TLC

VARIABLES
    app,               \* which program runs: "cli" (LocalMiniPestMA) or "web"
    pc,                \* position of the orchestrator inside one run
    results,           \* the accumulating result dict of the current run
    diag_json,         \* local diag_json of the orchestrator
    valid_json,        \* local valid_json of the orchestrator
    calls,             \* ollama.generate invocations of the current run
    clock,             \* time.time()
    run_start,         \* analysis_start / the stage start of the current run
    returned,          \* what the last finished run returned to its caller
    analysis_history,  \* self.analysis_history / st.session_state.analysis_history
    analysis_count,    \* st.session_state.analysis_count
    image_path,        \* local image_path of the orchestrator (TRUE: an image)
    runs,              \* number of runs started so far
    ex,                \* one call of _extract_json, step by step
    fb,                \* one call of _create_fallback_json
    sv,                \* the file save_analysis writes, and what reading it gives
    il                 \* two activations of analyze_plant_problem on one instance

vars == <<app, pc, results, diag_json, valid_json, calls, clock, run_start,
          returned, analysis_history, analysis_count, image_path, runs, ex, fb,
          sv, il>>

orchVars == <<app, pc, results, diag_json, valid_json, calls, clock, run_start,
              returned, analysis_history, analysis_count, image_path, runs>>

-----------------------------------------------------------------------------
(* Bounds of the model *)

\* deepest nesting of the objects the model's collaborator may answer with
MaxDepth == 3

\* longest error detail (in chunks) handed to _create_fallback_json
MaxErrLen == 3

\* number of runs on one instance / in one web session
MaxRuns == 2

\* seconds one collaborator call takes
CallSeconds == 1

-----------------------------------------------------------------------------
(* Characters *)

QUOTE == "\""
LBRACE == "{"
RBRACE == "}"
\* the backquote character (which a TLA+ string cannot hold)
BACKTICK == "~"

BACKSLASH == "\\"
NEWLINE == "\n"
\* the character U+00E9, the one non-ASCII character of the model's alphabet
EACUTE == "<U+00E9>"

\* str.strip(), the regex class \s and JSON whitespace, on the alphabet of the
\* model
IsSpace(c) == c \in {" ", NEWLINE}

\* the class [^{}]
NotBrace(c) == c # LBRACE /\ c # RBRACE

IsDigit(c) == c \in {"0", "1", "2", "3", "4", "5", "6", "7", "8", "9"}

None == <<"none">>

RECURSIVE SkipSpace(_, _)
\* first index >= i of s that is no whitespace (Len(s) + 1 when there is none)
SkipSpace(s, i) ==
    IF i <= Len(s) /\ IsSpace(s[i]) THEN SkipSpace(s, i + 1) ELSE i

RECURSIVE SkipSpaceBack(_, _)
\* last index <= i of s that is no whitespace (0 when there is none)
SkipSpaceBack(s, i) ==
    IF i >= 1 /\ IsSpace(s[i]) THEN SkipSpaceBack(s, i - 1) ELSE i

\* str.strip()
Strip(s) == SubSeq(s, SkipSpace(s, 1), SkipSpaceBack(s, Len(s)))

-----------------------------------------------------------------------------
(* json.loads *)

Fail == [ok |-> FALSE, val |-> None, pos |-> 0]
Ok(v, p) == [ok |-> TRUE, val |-> v, pos |-> p]

HexDigits ==
    <<"0", "1", "2", "3", "4", "5", "6", "7", "8", "9", "a", "b", "c", "d", "e", "f">>

IsHex(c) == \E n \in 1..16 : HexDigits[n] = c

HexVal(c) == (CHOOSE n \in 1..16 : HexDigits[n] = c) - 1

\* ord(c) of a non-ASCII character
Ord(c) == IF c = EACUTE THEN 233 ELSE 0

\* chr(n) for the non-ASCII characters of the alphabet ("" outside it)
Chr(n) == IF n = 233 THEN EACUTE ELSE ""

\* int(s[j:j+4], 16), or -1 when these are not four hex digits
Hex4(s, j) ==
    IF j + 3 <= Len(s) /\ \A n \in j..(j + 3) : IsHex(s[n])
    THEN 4096 * HexVal(s[j]) + 256 * HexVal(s[j + 1])
           + 16 * HexVal(s[j + 2]) + HexVal(s[j + 3])
    ELSE 0 - 1

\* the number of backslashes that stand immediately before s[m], none of them
\* before s[i]
BackslashRun(s, i, m) ==
    CHOOSE k \in 0..(m - i) :
        /\ \A n \in (m - k)..(m - 1) : s[n] = BACKSLASH
        /\ (m - k = i \/ s[m - k - 1] # BACKSLASH)

\* s[m] is the backslash that opens an escape of the literal whose first
\* character is s[i]: it is not itself the character a backslash escapes
OpensEscape(s, i, m) ==
    m >= i /\ m <= Len(s) /\ s[m] = BACKSLASH /\ BackslashRun(s, i, m) % 2 = 0

\* s[j] is a quote that no backslash escapes
ClosesString(s, i, j) == s[j] = QUOTE /\ BackslashRun(s, i, j) % 2 = 0

\* index of the quote that ends the literal whose first character is s[i], 0
\* when the literal is unterminated
ClosingQuote(s, i) ==
    IF \E j \in i..Len(s) : ClosesString(s, i, j)
    THEN CHOOSE j \in i..Len(s) :
            ClosesString(s, i, j) /\ \A k \in i..(j - 1) : ~ClosesString(s, i, k)
    ELSE 0

\* the character the escape opened at s[m] stands for ("" when the escape is
\* not one of the characters of the alphabet)
Unescape(s, m) ==
    IF s[m + 1] \in {QUOTE, BACKSLASH, "/"} THEN s[m + 1]
    ELSE IF s[m + 1] = "n" THEN NEWLINE
    ELSE IF s[m + 1] = "u" THEN Chr(Hex4(s, m + 2))
    ELSE ""

\* s[n] belongs to an escape opened before it: the character after the
\* backslash, or one of the four hex digits after \u
InsideEscape(s, i, n) ==
    \/ OpensEscape(s, i, n - 1)
    \/ \E m \in (n - 5)..(n - 2) : OpensEscape(s, i, m) /\ s[m + 1] = "u"

\* what s[n] adds to the decoded string: the character of the escape it
\* opens, nothing ("") inside an escape, itself otherwise
DecodedAt(s, i, n) ==
    IF OpensEscape(s, i, n) THEN Unescape(s, n)
    ELSE IF InsideEscape(s, i, n) THEN ""
    ELSE s[n]

\* an escape that is not decoded, or a control character (strict mode)
Undecodable(s, i, n) ==
    \/ OpensEscape(s, i, n) /\ Unescape(s, n) = ""
    \/ s[n] = NEWLINE

IsChar(c) == c # ""

\* the characters s[i..j-1] of a literal closed at s[j], escapes decoded
StringBody(s, i, j) ==
    SelectSeq([n \in 1..(j - i) |-> DecodedAt(s, i, i + n - 1)], IsChar)

\* the literal closed at s[j] (0: unterminated)
ScanClosed(s, i, j) ==
    IF j = 0 THEN Fail
    ELSE IF \E n \in i..(j - 1) : Undecodable(s, i, n) THEN Fail
    ELSE Ok(<<"str", StringBody(s, i, j)>>, j + 1)

\* py_scanstring (strict) from the character after the opening quote: the
\* characters up to the closing quote, escapes decoded; a control character,
\* an escape outside the alphabet or an unterminated literal is an error
ScanString(s, i) == ScanClosed(s, i, ClosingQuote(s, i))

\* a string literal starting at s[i] = QUOTE
ParseString(s, i) == ScanString(s, i + 1)

DigitVal(c) ==
    CASE c = "0" -> 0 [] c = "1" -> 1 [] c = "2" -> 2 [] c = "3" -> 3
      [] c = "4" -> 4 [] c = "5" -> 5 [] c = "6" -> 6 [] c = "7" -> 7
      [] c = "8" -> 8 [] c = "9" -> 9

RECURSIVE ParseDigits(_, _, _)
\* the run of digits starting at i, read as a decimal number
ParseDigits(s, i, acc) ==
    IF i <= Len(s) /\ IsDigit(s[i])
    THEN ParseDigits(s, i + 1, 10 * acc + DigitVal(s[i]))
    ELSE Ok(<<"num", acc>>, i)

\* (0|[1-9]\d*) starting at d
ParseUnsigned(s, d) ==
    IF d > Len(s) \/ ~IsDigit(s[d]) THEN Fail
    ELSE IF s[d] = "0" THEN Ok(<<"num", 0>>, d + 1)
    ELSE ParseDigits(s, d, 0)

Negated(n) == IF n.ok THEN Ok(<<"num", 0 - n.val[2]>>, n.pos) ELSE Fail

\* NUMBER_RE, integers only: -?(0|[1-9]\d*), starting at i
ParseNumber(s, i) ==
    IF s[i] = "-" THEN Negated(ParseUnsigned(s, i + 1)) ELSE ParseUnsigned(s, i)

\* s has the characters of word at i
StartsWith(s, i, word) ==
    /\ i + Len(word) - 1 <= Len(s)
    /\ SubSeq(s, i, i + Len(word) - 1) = word

RECURSIVE HasKey(_, _)
HasKey(pairs, k) ==
    IF pairs = <<>> THEN FALSE
    ELSE IF Head(pairs)[1] = k THEN TRUE
    ELSE HasKey(Tail(pairs), k)

\* dict[k] = v: a key already present keeps its place and takes the new value
DictSet(pairs, k, v) ==
    IF HasKey(pairs, k)
    THEN [n \in 1..Len(pairs) |->
            IF pairs[n][1] = k THEN <<k, v>> ELSE pairs[n]]
    ELSE Append(pairs, <<k, v>>)

RECURSIVE ParseValue(_, _)
RECURSIVE ParseMembers(_, _, _)

\* after a member, at s[m]: the closing brace, or a comma and the next key
AfterMember(s, m, acc) ==
    IF m > Len(s) THEN Fail
    ELSE IF s[m] = RBRACE THEN Ok(<<"obj", acc>>, m + 1)
    ELSE IF s[m] = "," THEN ParseMembers(s, SkipSpace(s, m + 1), acc)
    ELSE Fail

\* after the value v of key k
AfterValue(s, k, v, acc) ==
    IF ~v.ok THEN Fail
    ELSE AfterMember(s, SkipSpace(s, v.pos), DictSet(acc, k, v.val))

\* after the key k, at s[c]: the colon, then the value
AfterKey(s, k, c, acc) ==
    IF c > Len(s) \/ s[c] # ":" THEN Fail
    ELSE AfterValue(s, k, ParseValue(s, SkipSpace(s, c + 1)), acc)

\* the key was read as the string literal key
WithKey(s, key, acc) ==
    IF ~key.ok THEN Fail
    ELSE AfterKey(s, key.val[2], SkipSpace(s, key.pos), acc)

\* the members of an object, s[i] being the first character of a key
ParseMembers(s, i, acc) ==
    IF i > Len(s) \/ s[i] # QUOTE THEN Fail
    ELSE WithKey(s, ParseString(s, i), acc)

\* the object whose first character after the open brace and whitespace is s[j]
ObjectFrom(s, j) ==
    IF j > Len(s) THEN Fail
    ELSE IF s[j] = RBRACE THEN Ok(<<"obj", <<>> >>, j + 1)
    ELSE ParseMembers(s, j, <<>>)

\* an object starting at s[i] = LBRACE
ParseObject(s, i) == ObjectFrom(s, SkipSpace(s, i + 1))

\* the scanner's dispatch on the first character of a value
ParseValue(s, i) ==
    IF i > Len(s) THEN Fail
    ELSE IF s[i] = QUOTE THEN ParseString(s, i)
    ELSE IF s[i] = LBRACE THEN ParseObject(s, i)
    ELSE IF s[i] = "-" \/ IsDigit(s[i]) THEN ParseNumber(s, i)
    ELSE IF StartsWith(s, i, <<"t", "r", "u", "e">>)
         THEN Ok(<<"bool", TRUE>>, i + 4)
    ELSE IF StartsWith(s, i, <<"f", "a", "l", "s", "e">>)
         THEN Ok(<<"bool", FALSE>>, i + 5)
    ELSE IF StartsWith(s, i, <<"n", "u", "l", "l">>)
         THEN Ok(<<"null", 0>>, i + 4)
    ELSE Fail

NotFound == [ok |-> FALSE, val |-> None]

\* the decoded value v must be followed by whitespace only
WholeText(s, v) ==
    IF v.ok /\ SkipSpace(s, v.pos) = Len(s) + 1
    THEN [ok |-> TRUE, val |-> v.val]
    ELSE NotFound

\* json.loads(s): [ok |-> TRUE, val |-> v], or ok = FALSE for JSONDecodeError
\* (no value, or extra data after it)
Loads(s) == WholeText(s, ParseValue(s, SkipSpace(s, 1)))

-----------------------------------------------------------------------------
(* The regular expressions of _extract_json *)

RECURSIVE SkipNotBrace(_, _)
\* [^{}]* from i: the first index >= i holding a brace (Len(s) + 1 if none)
SkipNotBrace(s, i) ==
    IF i <= Len(s) /\ NotBrace(s[i]) THEN SkipNotBrace(s, i + 1) ELSE i

RECURSIVE Pattern1Groups(_, _)

\* \{[^{}]*\}[^{}]* once, the inner [^{}]* having stopped at k
Pattern1Inner(s, k) ==
    IF k <= Len(s) /\ s[k] = RBRACE
    THEN Pattern1Groups(s, SkipNotBrace(s, k + 1))
    ELSE 0

\* (?:\{[^{}]*\}[^{}]*)*\} from j, j being at a brace or at the end: the index
\* of the closing brace of the match, 0 when the pattern does not match
Pattern1Groups(s, j) ==
    IF j > Len(s) THEN 0
    ELSE IF s[j] = RBRACE THEN j
    ELSE Pattern1Inner(s, SkipNotBrace(s, j + 1))

\* r'\{[^{}]*(?:\{[^{}]*\}[^{}]*)*\}' matched at s[i] = LBRACE: the index of
\* the last character of the match, 0 when it does not match at i
Pattern1End(s, i) == Pattern1Groups(s, SkipNotBrace(s, i + 1))

RECURSIVE Pattern2Loop(_, _)

\* (?:\{[^{}]*\}) once, [^{}]* having stopped at k
Pattern2Inner(s, k) ==
    IF k <= Len(s) /\ s[k] = RBRACE THEN Pattern2Loop(s, k + 1) ELSE 0

\* (?:[^{}]|(?:\{[^{}]*\}))*\} from j
Pattern2Loop(s, j) ==
    IF j > Len(s) THEN 0
    ELSE IF NotBrace(s[j]) THEN Pattern2Loop(s, j + 1)
    ELSE IF s[j] = RBRACE THEN j
    ELSE Pattern2Inner(s, SkipNotBrace(s, j + 1))

\* r'\{(?:[^{}]|(?:\{[^{}]*\}))*\}' matched at s[i] = LBRACE
Pattern2End(s, i) == Pattern2Loop(s, i + 1)

\* json_patterns[p], 1-based
PatternEnd(p, s, i) == IF p = 1 THEN Pattern1End(s, i) ELSE Pattern2End(s, i)

NumPatterns == 2

RECURSIVE FindAll(_, _, _)

\* the scan at i, e being the end of the match at i (0: no match at i)
FindAllAt(p, s, i, e) ==
    IF e # 0 THEN <<SubSeq(s, i, e)>> \o FindAll(p, s, e + 1)
    ELSE FindAll(p, s, i + 1)

\* re.findall(json_patterns[p], s, re.DOTALL) from position i: the matches
\* left to right, the scan resuming after each match
FindAll(p, s, i) ==
    IF i > Len(s) THEN <<>>
    ELSE IF s[i] = LBRACE THEN FindAllAt(p, s, i, PatternEnd(p, s, i))
    ELSE FindAll(p, s, i + 1)

IsFenceAt(s, i) ==
    /\ i + 2 <= Len(s)
    /\ s[i] = BACKTICK /\ s[i + 1] = BACKTICK /\ s[i + 2] = BACKTICK

JsonTag == <<"j", "s", "o", "n">>

\* the literal prefix of markers[m]: ``` followed by json, or ``` alone
OpensAt(m, s, i) ==
    /\ IsFenceAt(s, i)
    /\ m = 1 => /\ i + 2 + Len(JsonTag) <= Len(s)
                /\ SubSeq(s, i + 3, i + 2 + Len(JsonTag)) = JsonTag

AfterOpen(m, i) == IF m = 1 THEN i + 3 + Len(JsonTag) ELSE i + 3

RECURSIVE LazyEnd(_, _)
\* (.*?)\s*``` from a: the first index p >= a from which \s*``` matches
\* (group 1 is s[a .. p-1]), 0 when there is none
LazyEnd(s, p) ==
    IF p > Len(s) + 1 THEN 0
    ELSE IF IsFenceAt(s, SkipSpace(s, p)) THEN p
    ELSE LazyEnd(s, p + 1)

RECURSIVE FenceSearch(_, _, _)

\* the opening fence at i, a after its \s*, z where (.*?) ends (0: no closing
\* fence, and the search goes on from i + 1)
FenceAt(m, s, i, a, z) ==
    IF z # 0 THEN [found |-> TRUE, group |-> SubSeq(s, a, z - 1)]
    ELSE FenceSearch(m, s, i + 1)

FenceFrom(m, s, i, a) == FenceAt(m, s, i, a, LazyEnd(s, a))

\* re.search(markers[m], s, re.DOTALL) for the two fenced patterns, from i:
\* the leftmost start that has a match, and its group(1)
FenceSearch(m, s, i) ==
    IF i > Len(s) THEN [found |-> FALSE, group |-> <<>>]
    ELSE IF OpensAt(m, s, i)
         THEN FenceFrom(m, s, i, SkipSpace(s, AfterOpen(m, i)))
    ELSE FenceSearch(m, s, i + 1)

\* re.search(r'\{.*\}', s, re.DOTALL): some open brace has a close brace after it
SpanFound(s) ==
    \E i \in 1..Len(s) : \E j \in (i + 1)..Len(s) :
        s[i] = LBRACE /\ s[j] = RBRACE

-----------------------------------------------------------------------------
(* _extract_json *)

NumMarkers == 3

\* text[:200]
PrefixLimit == 200

Returned(v) == [kind |-> "return", val |-> v, exc |-> "", msg |-> <<>>]
Raised(e, m) == [kind |-> "raise", val |-> None, exc |-> e, msg |-> m]
\* json.JSONDecodeError(*args): __init__(self, msg, doc, pos) takes three
\* arguments; with fewer the constructor call itself raises TypeError
NewJSONDecodeError(args) ==
    IF Len(args) = 3
    THEN Raised("JSONDecodeError", args[1])
    ELSE Raised("TypeError",
                <<"JSONDecodeError.__init__() missing 2 required positional arguments: 'doc' and 'pos'">>)

\* a direct parse that only accepts a text starting and ending with a brace
DirectStepNoTrim(text) ==
    IF text # <<>> /\ text[1] = LBRACE /\ text[Len(text)] = RBRACE
    THEN Loads(text)
    ELSE NotFound

\* first step: json.loads(text.strip())
DirectStep(text) == Loads(Strip(text))

RECURSIVE FirstLoad(_)

\* return the parsed match, or continue with the next one
ParsedOrNext(r, rest) == IF r.ok THEN r ELSE FirstLoad(rest)

\* for match in matches: the first json.loads(match.strip()) that succeeds
FirstLoad(matches) ==
    IF matches = <<>> THEN NotFound
    ELSE ParsedOrNext(Loads(Strip(Head(matches))), Tail(matches))

RECURSIVE ScanPatterns(_, _)

ParsedOrNextPattern(r, text, p) == IF r.ok THEN r ELSE ScanPatterns(text, p)

\* for pattern in json_patterns, from pattern p on
ScanPatterns(text, p) ==
    IF p > NumPatterns THEN NotFound
    ELSE ParsedOrNextPattern(FirstLoad(FindAll(p, text, 1)), text, p + 1)

\* second step: the brace-pattern scan
ScanStep(text) == ScanPatterns(text, 1)

\* number of groups of markers[m]: the two fenced patterns capture the
\* fenced text, r'\{.*\}' captures nothing
MarkerGroups(m) == IF m < NumMarkers THEN 1 ELSE 0

\* json.loads(match.group(1).strip()) for a match f of a fenced pattern
LoadGroup(f) == IF f.found THEN Loads(Strip(f.group)) ELSE NotFound

RECURSIVE FirstBrace(_, _)
FirstBrace(s, i) ==
    IF i > Len(s) THEN 0 ELSE IF s[i] = LBRACE THEN i ELSE FirstBrace(s, i + 1)

RECURSIVE LastBrace(_, _)
LastBrace(s, i) ==
    IF i < 1 THEN 0 ELSE IF s[i] = RBRACE THEN i ELSE LastBrace(s, i - 1)

\* what r'\{.*\}' matches: from the first open brace to the last close brace
SpanText(s) == SubSeq(s, FirstBrace(s, 1), LastBrace(s, Len(s)))

\* one marker: re.search, then json.loads(match.group(1).strip()).  Without a
\* group 1, match.group(1) raises IndexError, which the handler skips
TryMarker(text, m) ==
    IF m < NumMarkers THEN LoadGroup(FenceSearch(m, text, 1))
    ELSE IF SpanFound(text) /\ MarkerGroups(m) >= 1
         THEN Loads(Strip(SpanText(text)))
    ELSE NotFound

RECURSIVE ScanMarkers(_, _)

ParsedOrNextMarker(r, text, m) == IF r.ok THEN r ELSE ScanMarkers(text, m)

\* for pattern, flags in markers, from marker m on
ScanMarkers(text, m) ==
    IF m > NumMarkers THEN NotFound
    ELSE ParsedOrNextMarker(TryMarker(text, m), text, m + 1)

\* third step: the markers
MarkerStep(text) == ScanMarkers(text, 1)

Min(a, b) == IF a <= b THEN a ELSE b

\* last step: raise json.JSONDecodeError(f"Could not extract ... {text[:200]}...")
RaiseStep(text) ==
    NewJSONDecodeError(<< <<"Could not extract valid JSON from: ">>
                            \o SubSeq(text, 1, Min(Len(text), PrefixLimit))
                            \o <<"...">> >>)

ReturnedOrRaise(r, text) ==
    IF r.ok THEN Returned(r.val) ELSE RaiseStep(text)

ReturnedOrMarkers(r, text) ==
    IF r.ok THEN Returned(r.val) ELSE ReturnedOrRaise(MarkerStep(text), text)

ReturnedOrScan(r, text) ==
    IF r.ok THEN Returned(r.val) ELSE ReturnedOrMarkers(ScanStep(text), text)

\* _extract_json(text): what it returns or raises
ExtractJson(text) == ReturnedOrScan(DirectStep(text), text)

-----------------------------------------------------------------------------
(* _create_fallback_json *)

S(chunk) == <<"str", <<chunk>> >>

\* the fallback without the error detail in its free-text field
FallbackJsonNoDetail(agent_type, error_msg) ==
    IF agent_type = "diagnoser"
    THEN <<"obj", <<
           << <<"primary_diagnosis">>, S("Analysis failed - JSON parsing error") >>,
           << <<"primary_confidence">>, <<"num", 1>> >>,
           << <<"alternative_diagnosis">>, S("Unable to determine") >>,
           << <<"alternative_confidence">>, <<"num", 1>> >>,
           << <<"image_text_correlation">>, S("no_image") >>,
           << <<"key_symptoms_observed">>, S("Parsing error occurred") >>,
           << <<"visual_evidence_quality">>, S("none") >>,
           << <<"error_flags">>, <<"obj", <<
                << <<"equally_likely">>, <<"bool", FALSE>> >>,
                << <<"contradictory_symptoms">>, <<"bool", FALSE>> >>,
                << <<"insufficient_evidence">>, <<"bool", TRUE>> >> >> >> >>,
           << <<"diagnostic_reasoning">>, S("JSON parsing failed: ") >> >> >>
    ELSE IF agent_type = "validator"
    THEN <<"obj", <<
           << <<"primary_diagnosis_valid">>, <<"bool", FALSE>> >>,
           << <<"primary_confidence_adjustment">>, <<"num", -3>> >>,
           << <<"alternative_diagnosis_preferred">>, <<"bool", FALSE>> >>,
           << <<"critical_concerns">>,
              S("Validation failed due to parsing error: ") >>,
           << <<"evidence_quality_assessment">>, S("weak") >>,
           << <<"overlooked_factors">>, S("Unable to assess due to parsing error") >>,
           << <<"bias_detection">>, S("none identified") >>,
           << <<"additional_diagnostics_needed">>,
              S("Retry analysis with corrected prompts") >>,
           << <<"final_recommendation">>, S("request_expert") >> >> >>
    ELSE <<"obj", <<>> >>

\* a validator fallback that sides with the diagnosis
FallbackJsonConfident(agent_type, error_msg) ==
    IF agent_type = "validator"
    THEN <<"obj", <<
           << <<"primary_diagnosis_valid">>, <<"bool", FALSE>> >>,
           << <<"primary_confidence_adjustment">>, <<"num", -3>> >>,
           << <<"alternative_diagnosis_preferred">>, <<"bool", FALSE>> >>,
           << <<"critical_concerns">>,
              <<"str", <<"Validation failed due to parsing error: ">> \o error_msg>> >>,
           << <<"evidence_quality_assessment">>, S("weak") >>,
           << <<"overlooked_factors">>, S("Unable to assess due to parsing error") >>,
           << <<"bias_detection">>, S("none identified") >>,
           << <<"additional_diagnostics_needed">>,
              S("Retry analysis with corrected prompts") >>,
           << <<"final_recommendation">>, S("support_primary") >> >> >>
    ELSE FallbackJsonNoDetail(agent_type, error_msg)

\* _create_fallback_json(agent_type, error_msg); error_msg is a str, so
\* str(error_msg) is error_msg
FallbackJson(agent_type, error_msg) ==
    IF agent_type = "diagnoser"
    THEN <<"obj", <<
           << <<"primary_diagnosis">>, S("Analysis failed - JSON parsing error") >>,
           << <<"primary_confidence">>, <<"num", 1>> >>,
           << <<"alternative_diagnosis">>, S("Unable to determine") >>,
           << <<"alternative_confidence">>, <<"num", 1>> >>,
           << <<"image_text_correlation">>, S("no_image") >>,
           << <<"key_symptoms_observed">>, S("Parsing error occurred") >>,
           << <<"visual_evidence_quality">>, S("none") >>,
           << <<"error_flags">>, <<"obj", <<
                << <<"equally_likely">>, <<"bool", FALSE>> >>,
                << <<"contradictory_symptoms">>, <<"bool", FALSE>> >>,
                << <<"insufficient_evidence">>, <<"bool", TRUE>> >> >> >> >>,
           << <<"diagnostic_reasoning">>,
              <<"str", <<"JSON parsing failed: ">> \o error_msg>> >> >> >>
    ELSE IF agent_type = "validator"
    THEN <<"obj", <<
           << <<"primary_diagnosis_valid">>, <<"bool", FALSE>> >>,
           << <<"primary_confidence_adjustment">>, <<"num", -3>> >>,
           << <<"alternative_diagnosis_preferred">>, <<"bool", FALSE>> >>,
           << <<"critical_concerns">>,
              <<"str", <<"Validation failed due to parsing error: ">> \o error_msg>> >>,
           << <<"evidence_quality_assessment">>, S("weak") >>,
           << <<"overlooked_factors">>, S("Unable to assess due to parsing error") >>,
           << <<"bias_detection">>, S("none identified") >>,
           << <<"additional_diagnostics_needed">>,
              S("Retry analysis with corrected prompts") >>,
           << <<"final_recommendation">>, S("request_expert") >> >> >>
    ELSE <<"obj", <<>> >>

\* the field names the diagnoser's system prompt asks for
DiagnosisFields ==
    << <<"primary_diagnosis">>, <<"primary_confidence">>,
       <<"alternative_diagnosis">>, <<"alternative_confidence">>,
       <<"image_text_correlation">>, <<"key_symptoms_observed">>,
       <<"visual_evidence_quality">>, <<"error_flags">>,
       <<"diagnostic_reasoning">> >>

\* the field names the validator's system prompt asks for
ValidationFields ==
    << <<"primary_diagnosis_valid">>, <<"primary_confidence_adjustment">>,
       <<"alternative_diagnosis_preferred">>, <<"critical_concerns">>,
       <<"evidence_quality_assessment">>, <<"overlooked_factors">>,
       <<"bias_detection">>, <<"additional_diagnostics_needed">>,
       <<"final_recommendation">> >>

\* the keys of a dict, in order
Keys(obj) == [n \in 1..Len(obj[2]) |-> obj[2][n][1]]

RECURSIVE Lookup(_, _)
Lookup(pairs, k) ==
    IF pairs = <<>> THEN None
    ELSE IF Head(pairs)[1] = k THEN Head(pairs)[2]
    ELSE Lookup(Tail(pairs), k)

\* obj[k] (None when the key is missing)
Get(obj, k) == Lookup(obj[2], <<k>>)

-----------------------------------------------------------------------------
(* What the model-call collaborator may answer *)

RECURSIVE DigitsOf(_)
DigitsOf(n) ==
    LET d == <<"0", "1", "2", "3", "4", "5", "6", "7", "8", "9">>[(n % 10) + 1]
    IN  IF n < 10 THEN <<d>> ELSE DigitsOf(n \div 10) \o <<d>>

\* json.dump(results, f, indent=2)

\* the four hex digits of n
HexOf(n) ==
    <<HexDigits[((n \div 4096) % 16) + 1], HexDigits[((n \div 256) % 16) + 1],
      HexDigits[((n \div 16) % 16) + 1], HexDigits[(n % 16) + 1]>>

\* how the encoder writes one character of a string: quote, backslash and
\* control characters are escaped, and with ensure_ascii every non-ASCII
\* character too
EscapedChar(c, ascii) ==
    IF c = QUOTE THEN <<BACKSLASH, QUOTE>>
    ELSE IF c = BACKSLASH THEN <<BACKSLASH, BACKSLASH>>
    ELSE IF c = NEWLINE THEN <<BACKSLASH, "n">>
    ELSE IF ascii /\ Ord(c) > 127 THEN <<BACKSLASH, "u">> \o HexOf(Ord(c))
    ELSE <<c>>

\* an encoder that writes the characters of a string as they are
EscapedRaw(s, ascii) == s

\* index of the first character of s that the encoder escapes, 0 when there
\* is none
FirstEscaped(s, ascii) ==
    IF \E j \in 1..Len(s) : EscapedChar(s[j], ascii) # <<s[j]>>
    THEN CHOOSE j \in 1..Len(s) :
            /\ EscapedChar(s[j], ascii) # <<s[j]>>
            /\ \A k \in 1..(j - 1) : EscapedChar(s[k], ascii) = <<s[k]>>
    ELSE 0

RECURSIVE Escaped(_, _)

\* s with its first escaped character at j (0: none) replaced, and so on
EscapedFrom(s, j, ascii) ==
    IF j = 0 THEN s
    ELSE SubSeq(s, 1, j - 1) \o EscapedChar(s[j], ascii)
           \o Escaped(SubSeq(s, j + 1, Len(s)), ascii)

\* ESCAPE.sub / ESCAPE_ASCII.sub over the characters of a string
Escaped(s, ascii) == EscapedFrom(s, FirstEscaped(s, ascii), ascii)

RECURSIVE Indent(_)
\* the indentation of nesting level n, two spaces a level
Indent(n) == IF n = 0 THEN <<>> ELSE <<" ", " ">> \o Indent(n - 1)

RECURSIVE DumpsValue(_, _, _)
RECURSIVE DumpsMembers(_, _, _)

\* the members of a dict, one a line, "," after each but the last
DumpsMembers(pairs, level, ascii) ==
    IF pairs = <<>> THEN <<>>
    ELSE <<NEWLINE>> \o Indent(level)
           \o <<QUOTE>> \o Escaped(Head(pairs)[1], ascii) \o <<QUOTE, ":", " ">>
           \o DumpsValue(Head(pairs)[2], level, ascii)
           \o (IF Len(pairs) > 1 THEN <<",">> ELSE <<>>)
           \o DumpsMembers(Tail(pairs), level, ascii)

\* json.dumps(v, indent=2, ensure_ascii=ascii) for a value nested level deep
DumpsValue(v, level, ascii) ==
    CASE v[1] = "num"  -> IF v[2] < 0 THEN <<"-">> \o DigitsOf(0 - v[2])
                          ELSE DigitsOf(v[2])
      [] v[1] = "str"  -> <<QUOTE>> \o Escaped(v[2], ascii) \o <<QUOTE>>
      [] v[1] = "bool" -> IF v[2] THEN <<"t", "r", "u", "e">>
                          ELSE <<"f", "a", "l", "s", "e">>
      [] v[1] = "null" -> <<"n", "u", "l", "l">>
      [] v[1] = "obj"  -> IF v[2] = <<>> THEN <<LBRACE, RBRACE>>
                          ELSE <<LBRACE>> \o DumpsMembers(v[2], level + 1, ascii)
                                 \o <<NEWLINE>> \o Indent(level) \o <<RBRACE>>

\* the keys of one of the orchestrator's dicts in insertion order: the
\* metadata, a stage entry, or the results themselves
FieldOrder(d) ==
    IF "status" \in DOMAIN d /\ d.status = "error_recovered"
    THEN <<"response_json", "status", "error", "time">>
    ELSE <<"metadata", "diagnoser", "validator", "advisor",
           "timestamp", "problem", "has_image", "total_time",
           "response_json", "response_text", "response", "time", "model",
           "status", "error", "raw_response">>

RECURSIVE Fields(_, _)
RECURSIVE DictValue(_)

\* the value stored under key k as a JSON value: a nested dict, a payload, a
\* number, a bool, a short str or a text
FieldValue(k, v) ==
    IF k \in {"metadata", "diagnoser", "validator", "advisor"} THEN DictValue(v)
    ELSE IF k = "response_json" THEN v
    ELSE IF k \in {"time", "timestamp", "total_time"} THEN <<"num", v>>
    ELSE IF k = "has_image" THEN <<"bool", v>>
    ELSE IF k \in {"status", "model"} THEN <<"str", <<v>> >>
    ELSE <<"str", v>>

Fields(d, order) ==
    IF order = <<>> THEN <<>>
    ELSE (IF Head(order) \in DOMAIN d
          THEN << << <<Head(order)>>, FieldValue(Head(order), d[Head(order)]) >> >>
          ELSE <<>>)
           \o Fields(d, Tail(order))

\* one of the orchestrator's dicts as a JSON value
DictValue(d) == <<"obj", Fields(d, FieldOrder(d))>>

\* json.dump(results, f, indent=2, ensure_ascii=...): the cli writes non-ASCII
\* characters as they are, the web app (the default) escapes them
Dump(res) == DumpsValue(DictValue(res), 0, app = "web")

RECURSIVE JsonText(_, _)
RECURSIVE MembersText(_, _)
\* the members of an object, comma separated
MembersText(pairs, sp) ==
    IF pairs = <<>> THEN <<>>
    ELSE <<QUOTE>> \o Head(pairs)[1] \o <<QUOTE, ":">> \o sp
           \o JsonText(Head(pairs)[2], sp)
           \o (IF Len(pairs) > 1 THEN <<",">> \o sp ELSE <<>>)
           \o MembersText(Tail(pairs), sp)

\* a value written as JSON text, sp being what follows each colon and comma
JsonText(v, sp) ==
    CASE v[1] = "num"  -> IF v[2] < 0 THEN <<"-">> \o DigitsOf(0 - v[2])
                          ELSE DigitsOf(v[2])
      [] v[1] = "str"  -> <<QUOTE>> \o v[2] \o <<QUOTE>>
      [] v[1] = "bool" -> IF v[2] THEN <<"t", "r", "u", "e">>
                          ELSE <<"f", "a", "l", "s", "e">>
      [] v[1] = "null" -> <<"n", "u", "l", "l">>
      [] v[1] = "obj"  -> <<LBRACE>> \o MembersText(v[2], sp) \o <<RBRACE>>

Obj1(k, v) == <<"obj", << <<k, v>> >> >>
Obj2(k, v, j, w) == <<"obj", << <<k, v>>, <<j, w>> >> >>

\* values that are no object
Leaves ==
    { <<"num", 1>>, <<"str", <<"a">> >>, <<"str", <<LBRACE>> >>,
      <<"str", <<RBRACE>> >>, <<"bool", FALSE>> }

RECURSIVE ObjectsUpTo(_)
\* the objects with one key nested at most d deep
ObjectsUpTo(d) ==
    IF d <= 1
    THEN { <<"obj", <<>> >> } \cup { Obj1(<<"a">>, l) : l \in Leaves }
    ELSE ObjectsUpTo(d - 1) \cup { Obj1(<<"a">>, o) : o \in ObjectsUpTo(d - 1) }

\* the records a model may produce
Records ==
    ObjectsUpTo(MaxDepth)
      \cup { Obj2(<<"a">>, v, <<"j">>, w) :
               v \in { <<"num", 1>>, <<"str", <<RBRACE>> >> },
               w \in { <<"num", 10>>, Obj1(<<"a">>, <<"num", 1>>) } }

Fence == <<BACKTICK, BACKTICK, BACKTICK>>

\* what a model writes before its answer
Prefixes ==
    { <<>>, <<" ">>, <<"a", " ">>, Fence \o JsonTag \o <<" ">>,
      <<"a", " ">> \o Fence \o JsonTag \o <<" ">>, Fence \o <<" ">> }

\* what a model writes after its answer
Suffixes ==
    { <<>>, <<" ">>, <<" ", "a">>, <<" ">> \o Fence,
      <<" ">> \o Fence \o <<" ", "a">> }

\* answers that are no single record
OtherCores ==
    { <<>>, <<"a">>, <<"a", " ", "a">>, <<"1">>, <<QUOTE, "a", QUOTE>>,
      <<LBRACE, "a", RBRACE>>, <<LBRACE, QUOTE, "a", QUOTE, ":">>,
      <<RBRACE, LBRACE>>,
      JsonText(Obj1(<<"a">>, <<"num", 1>>), <<>>) \o <<" ">>
        \o JsonText(Obj1(<<"j">>, <<"num", 1>>), <<>>),
      <<LBRACE, "a", RBRACE, " ">> \o JsonText(Obj1(<<"a">>, <<"num", 1>>), <<>>),
      JsonText(Obj1(<<"a">>, <<"str", <<RBRACE>> >>), <<>>) \o <<" ">>
        \o JsonText(Obj1(<<"j">>, <<"num", 1>>), <<>>) }

\* the texts handed to _extract_json, each with how it was written
ExtractInputs ==
    { [pre |-> p, post |-> q, isrec |-> TRUE, rec |-> r,
       text |-> p \o JsonText(r, sp) \o q] :
         p \in Prefixes, q \in Suffixes, r \in Records, sp \in { <<>>, <<" ">> } }
    \cup
    { [pre |-> p, post |-> q, isrec |-> FALSE, rec |-> None,
       text |-> p \o c \o q] :
         p \in Prefixes, q \in Suffixes, c \in OtherCores }

-----------------------------------------------------------------------------
(* Initial state *)

NoCall == [kind |-> "none", val |-> None, exc |-> "", msg |-> <<>>]

ExIdle ==
    [pc |-> "idle", text |-> <<>>, pre |-> <<>>, post |-> <<>>,
     isrec |-> FALSE, rec |-> None, out |-> NoCall, steps |-> <<>>]

ExStart(i) ==
    [pc |-> "direct", text |-> i.text, pre |-> i.pre, post |-> i.post,
     isrec |-> i.isrec, rec |-> i.rec, out |-> NoCall, steps |-> <<>>]

FbIdle == [pc |-> "idle", agent_type |-> "", error_msg |-> <<>>, out |-> None]

SvIdle == [pc |-> "idle", display |-> "", text |-> <<>>, back |-> NotFound]

EmptyDict == <<>>

\* the activations of analyze_plant_problem that run side by side
RunIds == {1, 2}

\* an activation not yet entered: its locals and what it returned
NoFrame ==
    [pc |-> "idle", results |-> EmptyDict, diag_json |-> None,
     valid_json |-> None, image_path |-> FALSE, calls |-> <<>>,
     analysis_start |-> 0, began |-> 0, returned |-> EmptyDict]

IlIdle == [frame |-> [r \in RunIds |-> NoFrame], analysis_history |-> <<>>]

NothingReturned == [state |-> "NONE", record |-> EmptyDict, calls |-> <<>>]

OrchInit ==
    /\ app \in {"cli", "web"}
    /\ pc = "idle"
    /\ results = EmptyDict
    /\ diag_json = None
    /\ valid_json = None
    /\ calls = <<>>
    /\ clock = 0
    /\ run_start = 0
    /\ returned = NothingReturned
    /\ analysis_history = <<>>
    /\ analysis_count = 0
    /\ image_path = FALSE
    /\ runs = 0

-----------------------------------------------------------------------------
(* One call of _extract_json, step by step *)

\* the step named step found r: return it, or go on to the step next
StepTaken(step, r, next) ==
    ex' = [ex EXCEPT !.steps = Append(@, step),
                     !.pc = IF r.ok THEN "returned" ELSE next,
                     !.out = IF r.ok THEN Returned(r.val) ELSE @]

ExtractDirect ==
    /\ ex.pc = "direct"
    /\ StepTaken("direct", DirectStep(ex.text), "scan")
    /\ UNCHANGED <<orchVars, fb, sv, il>>

ExtractScan ==
    /\ ex.pc = "scan"
    /\ StepTaken("scan", ScanStep(ex.text), "markers")
    /\ UNCHANGED <<orchVars, fb, sv, il>>

ExtractMarkers ==
    /\ ex.pc = "markers"
    /\ StepTaken("markers", MarkerStep(ex.text), "raise")
    /\ UNCHANGED <<orchVars, fb, sv, il>>

ExtractRaise ==
    /\ ex.pc = "raise"
    /\ ex' = [ex EXCEPT !.steps = Append(@, "raise"),
                        !.pc = "raised",
                        !.out = RaiseStep(ex.text)]
    /\ UNCHANGED <<orchVars, fb, sv, il>>

ExtractInit ==
    /\ OrchInit
    /\ app = "cli"
    /\ fb = FbIdle
    /\ sv = SvIdle
    /\ il = IlIdle
    /\ ex \in { ExStart(i) : i \in ExtractInputs }

ExtractNext == ExtractDirect \/ ExtractScan \/ ExtractMarkers \/ ExtractRaise

SpecExtract == ExtractInit /\ [][ExtractNext]_vars

\* the step-by-step call agrees with the whole function
ExtractStepsAgree ==
    ex.pc \in {"returned", "raised"} => ex.out = ExtractJson(ex.text)

-----------------------------------------------------------------------------
(* One call of _create_fallback_json *)

ErrChunks == {"e", " ", "JSON parsing failed: "}

RECURSIVE SeqsUpTo(_, _)
\* the sequences over A of length at most n
SeqsUpTo(A, n) ==
    IF n = 0 THEN { <<>> }
    ELSE SeqsUpTo(A, n - 1)
           \cup { Append(q, c) : q \in { r \in SeqsUpTo(A, n - 1) : Len(r) = n - 1 },
                                 c \in A }

ErrorDetails == SeqsUpTo(ErrChunks, MaxErrLen)

AgentTypes == {"diagnoser", "validator", "advisor"}

CreateFallback ==
    /\ fb.pc = "call"
    /\ fb' = [fb EXCEPT !.pc = "done",
                        !.out = FallbackJson(fb.agent_type, fb.error_msg)]
    /\ UNCHANGED <<orchVars, ex, sv, il>>

FallbackInit ==
    /\ OrchInit
    /\ app = "cli"
    /\ ex = ExIdle
    /\ sv = SvIdle
    /\ il = IlIdle
    /\ fb \in { [pc |-> "call", agent_type |-> a, error_msg |-> m, out |-> None] :
                  a \in AgentTypes, m \in ErrorDetails }

FallbackNext == CreateFallback

SpecFallback == FallbackInit /\ [][FallbackNext]_vars

-----------------------------------------------------------------------------
(* The orchestrator: analyze_plant_problem (cli) and run_analysis (web) *)

\* isinstance(exception of class exc, cls), for the classes the handlers name
IsInstance(exc, cls) ==
    \/ cls = exc
    \/ cls = "Exception"
    \/ cls = "ValueError" /\ exc = "JSONDecodeError"

\* a last handler that names the collaborator's error only
CaughtIfConnectionError(exc) == IsInstance(exc, "ConnectionError")

\* except Exception, the last handler of each stage's try statement
CaughtByStage(exc) == IsInstance(exc, "Exception")

\* the class of the exception that reaches the last handler of a stage ("" when
\* there is none): the collaborator's, or the one _extract_json raised unless
\* the inner handler caught it
StageException(o, e) ==
    IF o.kind = "raise" THEN o.exc
    ELSE IF e.kind = "raise" /\ ~IsInstance(e.exc, "JSONDecodeError") THEN e.exc
    ELSE ""

\* no handler of the stage catches it: the exception leaves the orchestrator
Propagates(exc) == exc # "" /\ ~CaughtByStage(exc)

\* self.agents[agent]['model'] of LocalMiniPestMA
AgentModel(agent) ==
    CASE agent = "critical_diagnoser"   -> "mistral-small3.2:24b"
      [] agent = "skeptical_validator"  -> "gemma3:27b"
      [] agent = "conservative_advisor" -> "phi4:14b"

\* d[k] = v
Put(d, k, v) == (k :> v) @@ d

\* the cli's stage entries carry the model name, the web's do not
WithModel(entry, agent) ==
    IF app = "cli" THEN Put(entry, "model", AgentModel(agent)) ELSE entry

\* ollama.generate: raises, or returns a dict whose 'response' is a text
CollabRaises(e, m) == [kind |-> "raise", exc |-> e, msg |-> m, text |-> <<>>]
CollabReturns(t) == [kind |-> "text", exc |-> "", msg |-> <<>>, text |-> t]

CollabErrors == { CollabRaises("ConnectionError", <<"connection refused">>) }

DeepRecord == Obj1(<<"a">>, Obj1(<<"a">>, Obj1(<<"a">>, <<"num", 1>>)))

\* answers of the diagnoser's model
DiagTexts ==
    { JsonText(Obj1(<<"primary_confidence">>, <<"num", 99>>), <<>>),
      <<"a", " ">> \o JsonText(DeepRecord, <<>>) \o <<" ", "a">>,
      <<"a", " ", "a">>,
      <<"1">> }

\* answers of the validator's model
ValidTexts ==
    { <<LBRACE, QUOTE, "j", QUOTE, ":", " ", "f", "a", "l", "s", "e", ",", " ",
        QUOTE, "a", QUOTE, ":", " ",
        QUOTE, BACKSLASH, QUOTE, BACKSLASH, "n", EACUTE, BACKSLASH, BACKSLASH,
        QUOTE, RBRACE>>,
      <<"a", " ", "a">>,
      <<LBRACE, RBRACE>>,
      <<"a", " ">> \o JsonText(Obj1(<<"a">>, <<"str", <<RBRACE>> >>), <<>>) }

\* answers of the advisor's model
AdvisorTexts == { <<"a", " ", QUOTE, "a", QUOTE, BACKSLASH, NEWLINE, EACUTE>> }

\* self._extract_json(response['response']) for every text a JSON stage's
\* model may answer
Extracted == [t \in DiagTexts \cup ValidTexts |-> ExtractJson(t)]

DiagOutcomes == CollabErrors \cup { CollabReturns(t) : t \in DiagTexts }
ValidOutcomes == CollabErrors \cup { CollabReturns(t) : t \in ValidTexts }
AdvisorOutcomes == CollabErrors \cup { CollabReturns(t) : t \in AdvisorTexts }

\* problem descriptions typed by the user
Descriptions == { <<"spots">>, <<" ">> }

ErrorEntry(msg) == [status |-> "error", error |-> msg]

\* a stage that puts the diagnoser's fallback in place of a record without
\* the schema's fields
SuccessEntryValidated(agent, json, text, t) ==
    WithModel([response_json |->
                  IF json[1] = "obj" /\ Keys(json) = DiagnosisFields
                  THEN json ELSE FallbackJson("diagnoser", <<"invalid">>),
               response_text |-> text, time |-> t, status |-> "success"],
              agent)

\* a stage whose extraction succeeded
SuccessEntry(agent, json, text, t) ==
    WithModel([response_json |-> json, response_text |-> text, time |-> t,
               status |-> "success"], agent)

\* a stage whose extraction raised json.JSONDecodeError
RecoveredEntry(agent, fallback, text, t, msg) ==
    WithModel([response_json |-> fallback, response_text |-> text, time |-> t,
               status |-> "json_error_recovered",
               error |-> <<"JSON parsing failed, using fallback: ">> \o msg,
               raw_response |-> text], agent)

\* the inner handler: the fallback record becomes the stage's record
Recovered(agent, fallback, text, t, msg) ==
    [abort |-> FALSE, json |-> fallback,
     entry |-> RecoveredEntry(agent, fallback, text, t, msg)]

Aborted(msg) == [abort |-> TRUE, json |-> None, entry |-> ErrorEntry(msg)]

\* a handler that records the failure as the diagnoser's handler does
ErrorRecoveredEntryAsError(fallback, msg, t) ==
    [status |-> "error", error |-> msg, time |-> t]

\* the validator's entry when the except Exception handler runs
ErrorRecoveredEntry(fallback, msg, t) ==
    [response_json |-> fallback, status |-> "error_recovered",
     error |-> msg, time |-> t]

\* a handler that goes on with an empty record instead of the fallback
ErrorRecoveredEmpty(fallback, msg, t) ==
    [abort |-> FALSE, json |-> <<"obj", <<>> >>,
     entry |-> ErrorRecoveredEntry(<<"obj", <<>> >>, msg, t)]

\* a handler that stores the fallback and hands an empty record on
ErrorRecoveredNotHandedOn(fallback, msg, t) ==
    [abort |-> FALSE, json |-> <<"obj", <<>> >>,
     entry |-> ErrorRecoveredEntry(fallback, msg, t)]

\* the validator's except Exception handler
ErrorRecovered(fallback, msg, t) ==
    [abort |-> FALSE, json |-> fallback,
     entry |-> ErrorRecoveredEntry(fallback, msg, t)]

\* a failed diagnoser call handled the way stage 2 handles its own
DiagCallFailedContinues(o) ==
    [abort |-> FALSE, json |-> FallbackJson("diagnoser", o.msg),
     entry |-> ErrorEntry(o.msg)]

\* stage 1, ollama.generate raised: except Exception, return results
DiagCallFailed(o) == Aborted(o.msg)

\* stage 1, ollama.generate returned o.text and _extract_json did e
DiagExtracted(o, e, t) ==
    IF e.kind = "return"
    THEN [abort |-> FALSE, json |-> e.val,
          entry |-> SuccessEntry("critical_diagnoser", e.val, o.text, t)]
    ELSE IF IsInstance(e.exc, "JSONDecodeError")
    THEN Recovered("critical_diagnoser", FallbackJson("diagnoser", e.msg),
                   o.text, t, e.msg)
    ELSE Aborted(e.msg)

\* stage 1: the try block around the diagnoser's call.  o is what
\* ollama.generate did, t the stage's duration
ResolveDiag(o, t) ==
    IF o.kind = "raise" THEN DiagCallFailed(o)
    ELSE DiagExtracted(o, Extracted[o.text], t)

\* a failed validator call recorded without a fallback record
ValidCallFailedNoFallback(o, t) ==
    [abort |-> FALSE, json |-> <<"obj", <<>> >>, entry |-> ErrorEntry(o.msg)]

\* stage 2, ollama.generate raised: except Exception
ValidCallFailed(o, t) ==
    ErrorRecovered(FallbackJson("validator", o.msg), o.msg, t)

\* stage 2, ollama.generate returned o.text and _extract_json did e
ValidExtracted(o, e, t) ==
    IF e.kind = "return"
    THEN [abort |-> FALSE, json |-> e.val,
          entry |-> SuccessEntry("skeptical_validator", e.val, o.text, t)]
    ELSE IF IsInstance(e.exc, "JSONDecodeError")
    THEN Recovered("skeptical_validator", FallbackJson("validator", e.msg),
                   o.text, t, e.msg)
    ELSE ErrorRecovered(FallbackJson("validator", e.msg), e.msg, t)

\* stage 2: the try block around the validator's call
ResolveValid(o, t) ==
    IF o.kind = "raise" THEN ValidCallFailed(o, t)
    ELSE ValidExtracted(o, Extracted[o.text], t)

\* an advisory stage that keeps an empty response on failure
ResolveAdviseEmptyResponse(o, t) ==
    IF o.kind = "raise"
    THEN [status |-> "error", error |-> o.msg, response |-> <<>>]
    ELSE WithModel([response |-> o.text, time |-> t, status |-> "success"],
                   "conservative_advisor")

\* stage 3: the try block around the advisor's call
ResolveAdvise(o, t) ==
    IF o.kind = "raise"
    THEN ErrorEntry(o.msg)
    ELSE WithModel([response |-> o.text, time |-> t, status |-> "success"],
                   "conservative_advisor")

\* results[k]['time'] when it is there
TimeOf(res, k) ==
    IF k \in DOMAIN res /\ "time" \in DOMAIN res[k] THEN res[k].time ELSE 0

\* a run that ends without writing a total time
TotalTimeMissing(res, now) == res

\* results['metadata']['total_time']: the cli measures the wall clock, the web
\* adds up the stage times
WithTotalTime(res, now) ==
    [res EXCEPT !.metadata =
        Put(@, "total_time",
            IF app = "cli" THEN now - run_start
            ELSE TimeOf(res, "diagnoser") + TimeOf(res, "validator")
                   + TimeOf(res, "advisor"))]

\* {json.dumps(record, indent=2)} inside a prompt (nothing for a stage whose
\* prompt holds no such record)
PromptJson(record) ==
    IF record = None THEN <<>> ELSE DumpsValue(record, 0, TRUE)

\* one ollama.generate invocation: the agent, what its prompt was built from
\* and what the call did
Call(agent, problem, image, diag, valid, o) ==
    [agent |-> agent, problem |-> problem, image |-> image,
     diag |-> diag, valid |-> valid, outcome |-> o]

\* the records as the text of the call's prompt holds them
PromptTexts(call) ==
    [diag |-> PromptJson(call.diag), valid |-> PromptJson(call.valid)]

\* a session update that keeps the latest record only
WebSessionUpdateLatestOnly(record) ==
    /\ analysis_count' = analysis_count + 1
    /\ analysis_history' = <<record>>

\* the web script after run_analysis returned: count and history
WebSessionUpdate(record) ==
    /\ analysis_count' = analysis_count + 1
    /\ analysis_history' = Append(analysis_history, record)

\* return results
Return(state, record, allcalls) ==
    /\ returned' = [state |-> state, record |-> record, calls |-> allcalls]
    /\ pc' = "idle"
    /\ results' = EmptyDict
    /\ diag_json' = None
    /\ valid_json' = None
    /\ image_path' = FALSE
    /\ calls' = <<>>

\* an exception leaves the orchestrator: nothing is returned, and neither the
\* cli's append nor the web script's session update is reached
Escape(allcalls) ==
    /\ Return("RAISED", results, allcalls)
    /\ UNCHANGED <<analysis_history, analysis_count>>

\* the start of a run: the cli's analyze_plant_problem, or the web form's
\* submit handler, which refuses a blank description
StartRun ==
    /\ pc = "idle"
    /\ runs < MaxRuns
    /\ runs' = runs + 1
    /\ \E d \in Descriptions, image \in BOOLEAN :
        IF app = "web" /\ Strip(d) = <<>>
        THEN UNCHANGED <<pc, results, calls, run_start, image_path>>
        ELSE /\ results' =
                  [metadata |->
                     IF app = "cli"
                     THEN [timestamp |-> clock, problem |-> d]
                     ELSE [timestamp |-> clock, problem |-> d,
                           has_image |-> image]]
             /\ calls' = <<>>
             /\ run_start' = clock
             /\ pc' = "diagnose"
             /\ image_path' = image
    /\ UNCHANGED <<app, diag_json, valid_json, clock, returned,
                   analysis_history, analysis_count, ex, fb, sv, il>>

\* an early return that files the record in the instance's history
AbortReturnRecorded(res, all) ==
    /\ Return("ABORTED", res, all)
    /\ IF app = "web" THEN WebSessionUpdate(res)
       ELSE /\ analysis_history' = Append(analysis_history, res)
            /\ UNCHANGED analysis_count

\* the diagnoser's except Exception handler: return results.  The cli leaves
\* its history alone; the web script files whatever run_analysis returned
AbortReturn(res, all) ==
    /\ Return("ABORTED", res, all)
    /\ IF app = "web" THEN WebSessionUpdate(res)
       ELSE UNCHANGED <<analysis_history, analysis_count>>

\* a stage 1 that calls its collaborator again when the stage failed
DiagnoseEndRetry(r, res, all) ==
    IF r.abort
    THEN /\ calls' = all
         /\ UNCHANGED <<pc, results, diag_json, valid_json, image_path,
                        returned, analysis_history, analysis_count>>
    ELSE /\ results' = res
         /\ diag_json' = r.json
         /\ calls' = all
         /\ pc' = "validate"
         /\ UNCHANGED <<valid_json, image_path, returned,
                        analysis_history, analysis_count>>

\* the end of stage 1: r is how the stage resolved, res the results with the
\* diagnoser's entry, all the calls so far
DiagnoseEnd(r, res, all) ==
    IF r.abort
    THEN AbortReturn(res, all)
    ELSE /\ results' = res
         /\ diag_json' = r.json
         /\ calls' = all
         /\ pc' = "validate"
         /\ UNCHANGED <<valid_json, image_path, returned,
                        analysis_history, analysis_count>>

DiagnoseResolved(o, r, all) ==
    DiagnoseEnd(r, Put(results, "diagnoser", r.entry), all)

DiagnoseCalled(o, all) ==
    IF Propagates(StageException(o, Extracted[o.text]))
    THEN Escape(all)
    ELSE DiagnoseResolved(o, ResolveDiag(o, CallSeconds), all)

\* stage 1, from the diagnoser's call to the validator's call or the return
DiagnoseStage ==
    /\ pc = "diagnose"
    /\ \E o \in DiagOutcomes :
          DiagnoseCalled(o, Append(calls, Call("critical_diagnoser",
                                               results.metadata.problem,
                                               image_path, None, None, o)))
    /\ clock' = clock + CallSeconds
    /\ UNCHANGED <<app, run_start, runs, ex, fb, sv, il>>

ValidateResolved(o, r, all) ==
    /\ results' = Put(results, "validator", r.entry)
    /\ valid_json' = r.json
    /\ calls' = all
    /\ pc' = "advise"
    /\ UNCHANGED <<diag_json, image_path, returned,
                   analysis_history, analysis_count>>

ValidateCalled(o, all) ==
    IF Propagates(StageException(o, Extracted[o.text]))
    THEN Escape(all)
    ELSE ValidateResolved(o, ResolveValid(o, CallSeconds), all)

\* stage 2, from the validator's call to the advisor's call
ValidateStage ==
    /\ pc = "validate"
    /\ \E o \in ValidOutcomes :
          ValidateCalled(o, Append(calls, Call("skeptical_validator",
                                               results.metadata.problem, FALSE,
                                               diag_json, None, o)))
    /\ clock' = clock + CallSeconds
    /\ UNCHANGED <<app, run_start, runs, ex, fb, sv, il>>

\* the end of a completed run: res is the finished record
AdviseEnd(res, all) ==
    /\ Return("DONE", res, all)
    /\ IF app = "web" THEN WebSessionUpdate(res)
       ELSE /\ analysis_history' = Append(analysis_history, res)
            /\ UNCHANGED analysis_count

AdviseResolved(o, entry, all) ==
    AdviseEnd(WithTotalTime(Put(results, "advisor", entry), clock + CallSeconds),
              all)

AdviseCalled(o, all) ==
    IF Propagates(StageException(o, NoCall))
    THEN Escape(all)
    ELSE AdviseResolved(o, ResolveAdvise(o, CallSeconds), all)

\* stage 3, from the advisor's call to the return: the total time, and the
\* history (the cli appends inside analyze_plant_problem, the web script after
\* run_analysis returned)
AdviseStage ==
    /\ pc = "advise"
    /\ \E o \in AdvisorOutcomes :
          AdviseCalled(o, Append(calls, Call("conservative_advisor",
                                             results.metadata.problem, FALSE,
                                             diag_json, valid_json, o)))
    /\ clock' = clock + CallSeconds
    /\ UNCHANGED <<app, run_start, runs, ex, fb, sv, il>>

\* a reset that empties the history and keeps the count
ResetSessionHistoryOnly ==
    /\ app = "web"
    /\ pc = "idle"
    /\ analysis_count # 0 \/ analysis_history # <<>>
    /\ analysis_history' = <<>>
    /\ UNCHANGED <<app, pc, results, diag_json, valid_json, calls, clock,
                   run_start, returned, image_path, runs, ex, fb, sv,
                   il, analysis_count>>

\* the web sidebar's Reset Session button
ResetSession ==
    /\ app = "web"
    /\ pc = "idle"
    /\ analysis_count # 0 \/ analysis_history # <<>>
    /\ analysis_count' = 0
    /\ analysis_history' = <<>>
    /\ UNCHANGED <<app, pc, results, diag_json, valid_json, calls, clock,
                   run_start, returned, image_path, runs, ex, fb, sv,
                   il>>

Init ==
    /\ OrchInit
    /\ ex = ExIdle
    /\ fb = FbIdle
    /\ sv = SvIdle
    /\ il = IlIdle

Next == StartRun \/ DiagnoseStage \/ ValidateStage \/ AdviseStage \/ ResetSession

Spec == Init /\ [][Next]_vars

-----------------------------------------------------------------------------
(* One run, then save_analysis and reading the file back *)

\* the first run of the program
FirstRun == runs = 0 /\ StartRun

\* bool(v) of a JSON value or None
Truthy(v) ==
    CASE v = None      -> FALSE
      [] v[1] = "null" -> FALSE
      [] v[1] = "num"  -> v[2] # 0
      [] v[1] = "bool" -> v[2]
      [] OTHER         -> v[2] # <<>>

\* results[stage].get('response_json', {}) when the stage's status is one of
\* those display_results shows, None otherwise
ShownData(res, stage, statuses) ==
    IF stage \in DOMAIN res /\ res[stage].status \in statuses
    THEN IF "response_json" \in DOMAIN res[stage]
         THEN res[stage].response_json ELSE <<"obj", <<>> >>
    ELSE None

\* d.get(k, default) of a dict d
GetOr(d, k, default) == IF HasKey(d[2], <<k>>) THEN Get(d, k) ELSE default

\* the block under 'if valid_data:': .get needs a dict, and the format +d a
\* number
ShowValidator(valid_data) ==
    IF ~Truthy(valid_data) THEN ""
    ELSE IF valid_data[1] # "obj" THEN "AttributeError"
    ELSE IF GetOr(valid_data, "primary_confidence_adjustment",
                  <<"num", 0>>)[1] \notin {"num", "bool"}
    THEN "ValueError"
    ELSE ""

\* the block under 'if diag_data:': .get needs a dict, and error_flags.values()
\* a dict when error_flags is not empty
ShowDiagnoser(diag_data, valid_data) ==
    IF ~Truthy(diag_data) THEN ""
    ELSE IF diag_data[1] # "obj" THEN "AttributeError"
    ELSE IF Truthy(valid_data) /\ valid_data[1] # "obj" THEN "AttributeError"
    ELSE IF Truthy(GetOr(diag_data, "error_flags", <<"obj", <<>> >>))
              /\ GetOr(diag_data, "error_flags", <<"obj", <<>> >>)[1] # "obj"
    THEN "AttributeError"
    ELSE ""

\* the blocks of display_results one after the other: the class of the first
\* exception raised, "" when none is
ShowStages(diag_data, valid_data) ==
    IF ShowDiagnoser(diag_data, valid_data) # ""
    THEN ShowDiagnoser(diag_data, valid_data)
    ELSE ShowValidator(valid_data)

\* display_results(results): the class of the exception it raises, "" when
\* it runs to its end.  The header reads results['metadata']['total_time']
DisplayResults(res) ==
    IF "total_time" \notin DOMAIN res.metadata THEN "KeyError"
    ELSE ShowStages(ShownData(res, "diagnoser",
                              {"success", "json_error_recovered"}),
                    ShownData(res, "validator",
                              {"success", "json_error_recovered",
                               "error_recovered"}))

\* get_performance_summary: the stages of one history entry that count as
\* successful
SuccessCount(analysis) ==
    Cardinality({agent \in {"diagnoser", "validator", "advisor"} :
                    /\ agent \in DOMAIN analysis
                    /\ (IF "status" \in DOMAIN analysis[agent]
                        THEN analysis[agent].status ELSE "error")
                          \in {"success", "json_error_recovered",
                               "error_recovered"}})

\* get_performance_summary: the counter an entry adds to
Classification(analysis) ==
    IF SuccessCount(analysis) = 3 THEN "full_success"
    ELSE IF SuccessCount(analysis) > 0 THEN "partial_success"
    ELSE "failed"

\* what main does with the record of a run before it saves it:
\* pestma.display_results(results); an exception ends the program
Display ==
    /\ pc = "idle"
    /\ app = "cli"
    /\ returned.state \in {"DONE", "ABORTED"}
    /\ sv.pc = "idle"
    /\ sv' = [sv EXCEPT !.display = DisplayResults(returned.record),
                        !.pc = IF DisplayResults(returned.record) = ""
                               THEN "displayed" ELSE "crashed"]
    /\ UNCHANGED <<orchVars, ex, fb, il>>

\* save_analysis(results), which main calls after display_results, / the web
\* app's Save Analysis Report button
SaveAnalysis ==
    /\ pc = "idle"
    /\ returned.state \in {"DONE", "ABORTED"}
    /\ sv.pc = (IF app = "cli" THEN "displayed" ELSE "idle")
    /\ sv' = [sv EXCEPT !.pc = "saved", !.text = Dump(returned.record)]
    /\ UNCHANGED <<orchVars, ex, fb, il>>

\* json.load of the file written
LoadSaved ==
    /\ sv.pc = "saved"
    /\ sv' = [sv EXCEPT !.pc = "loaded", !.back = Loads(sv.text)]
    /\ UNCHANGED <<orchVars, ex, fb, il>>

SaveNext ==
    \/ FirstRun \/ DiagnoseStage \/ ValidateStage \/ AdviseStage
    \/ Display \/ SaveAnalysis \/ LoadSaved

SpecSave == Init /\ [][SaveNext]_vars

-----------------------------------------------------------------------------
(* Two activations of analyze_plant_problem on one LocalMiniPestMA,
   interleaved at the collaborator calls *)

\* the locals of activation r
Frame(r) == il.frame[r]

\* a program that keeps the locals of analyze_plant_problem on the instance,
\* where every activation finds them
ContinueOnInstance(r, f) ==
    /\ il' = [il EXCEPT !.frame = [q \in RunIds |-> f]]
    /\ UNCHANGED <<orchVars, ex, fb, sv>>

\* activation r goes on with the locals f
Continue(r, f) ==
    /\ il' = [il EXCEPT !.frame[r] = f]
    /\ UNCHANGED <<orchVars, ex, fb, sv>>

\* time.time() as an activation with the locals f reads it: a call takes
\* CallSeconds, whatever the other activation does meanwhile
FrameClock(f) == f.analysis_start + CallSeconds * Len(f.calls)

\* the locals f after one more ollama.generate invocation
Called(f, call) == [f EXCEPT !.calls = Append(@, call)]

\* return results: the locals are gone
FrameReturns(f, res) ==
    [f EXCEPT !.pc = "done", !.returned = res, !.results = EmptyDict,
              !.diag_json = None, !.valid_json = None]

\* an exception leaves the activation
FrameRaises(f) == [f EXCEPT !.pc = "raised"]

\* the entry of analyze_plant_problem; began is the length of the history
\* at that moment
IlStart(r) ==
    /\ Frame(r).pc = "idle"
    /\ app = "cli"
    /\ \E d \in Descriptions, image \in BOOLEAN :
          Continue(r, [NoFrame EXCEPT
                         !.pc = "diagnose",
                         !.results = [metadata |->
                                        [timestamp |-> clock, problem |-> d]],
                         !.image_path = image,
                         !.analysis_start = clock,
                         !.began = Len(il.analysis_history)])

\* stage 1 of the activation with the locals f resolved as x
FrameDiagnosed(f, x) ==
    IF x.abort
    THEN FrameReturns(f, Put(f.results, "diagnoser", x.entry))
    ELSE [f EXCEPT !.pc = "validate",
                   !.results = Put(f.results, "diagnoser", x.entry),
                   !.diag_json = x.json]

FrameDiagnoseCalled(f, o) ==
    IF Propagates(StageException(o, Extracted[o.text]))
    THEN FrameRaises(f)
    ELSE FrameDiagnosed(f, ResolveDiag(o, CallSeconds))

\* stage 1 of activation r
IlDiagnose(r) ==
    /\ Frame(r).pc = "diagnose"
    /\ \E o \in DiagOutcomes :
          Continue(r, FrameDiagnoseCalled(
                         Called(Frame(r),
                                Call("critical_diagnoser",
                                     Frame(r).results.metadata.problem,
                                     Frame(r).image_path, None, None, o)), o))

FrameValidated(f, x) ==
    [f EXCEPT !.pc = "advise",
              !.results = Put(f.results, "validator", x.entry),
              !.valid_json = x.json]

FrameValidateCalled(f, o) ==
    IF Propagates(StageException(o, Extracted[o.text]))
    THEN FrameRaises(f)
    ELSE FrameValidated(f, ResolveValid(o, CallSeconds))

\* stage 2 of activation r
IlValidate(r) ==
    /\ Frame(r).pc = "validate"
    /\ \E o \in ValidOutcomes :
          Continue(r, FrameValidateCalled(
                         Called(Frame(r),
                                Call("skeptical_validator",
                                     Frame(r).results.metadata.problem, FALSE,
                                     Frame(r).diag_json, None, o)), o))

\* the finished record of the activation with the locals f
FrameRecord(f, entry) ==
    [Put(f.results, "advisor", entry) EXCEPT
        !.metadata = Put(@, "total_time", FrameClock(f) - f.analysis_start)]

\* stage 3 of activation r, the total time and the append to the history
\* of the instance
IlAdvised(r, f, o) ==
    IF Propagates(StageException(o, NoCall))
    THEN Continue(r, FrameRaises(f))
    ELSE /\ il' = [il EXCEPT
                     !.frame[r] =
                        FrameReturns(f, FrameRecord(f, ResolveAdvise(o, CallSeconds))),
                     !.analysis_history =
                        Append(@, FrameRecord(f, ResolveAdvise(o, CallSeconds)))]
         /\ UNCHANGED <<orchVars, ex, fb, sv>>

IlAdvise(r) ==
    /\ Frame(r).pc = "advise"
    /\ \E o \in AdvisorOutcomes :
          IlAdvised(r, Called(Frame(r),
                              Call("conservative_advisor",
                                   Frame(r).results.metadata.problem, FALSE,
                                   Frame(r).diag_json, Frame(r).valid_json, o)),
                    o)

InterleaveInit == Init /\ app = "cli"

InterleaveNext ==
    \E r \in RunIds : IlStart(r) \/ IlDiagnose(r) \/ IlValidate(r) \/ IlAdvise(r)

SpecInterleave == InterleaveInit /\ [][InterleaveNext]_vars

-----------------------------------------------------------------------------
(* Properties *)

\* a run has returned; returned.calls are its collaborator invocations
Finished == returned.state # "NONE"

\* what the n-th collaborator call of the returned run did
OutcomeOf(n) == returned.calls[n].outcome

\* _extract_json finds no record in the text
Unextractable(text) == ExtractJson(text).kind = "raise"

EndsWith(str, tail) ==
    /\ Len(tail) <= Len(str)
    /\ SubSeq(str, Len(str) - Len(tail) + 1, Len(str)) = tail

\* C1: if the diagnoser's collaborator call fails the run aborts: neither the
\* validator nor the advisor is invoked, and the returned record holds only the
\* metadata and a diagnoser entry with status 'error' and the error text.
C1_DiagFailureAborts ==
    /\ (pc \in {"validate", "advise"}) => calls[1].outcome.kind = "text"
    /\ (Finished /\ OutcomeOf(1).kind = "raise") =>
          /\ returned.state = "ABORTED"
          /\ Len(returned.calls) = 1
          /\ DOMAIN returned.record = {"metadata", "diagnoser"}
          /\ returned.record.diagnoser =
                [status |-> "error", error |-> OutcomeOf(1).msg]

C1_Witness ==
    /\ returned.state = "ABORTED"
    /\ OutcomeOf(1).kind = "raise"
    /\ runs = MaxRuns

\* C2: if the validator's collaborator call fails the run goes on: the
\* validator entry has status 'error_recovered' and the validator fallback
\* record as payload, the advisor is invoked with that fallback record as its
\* validation context, and the run completes.
C2_ValidFailureRecovered ==
    /\ (pc = "advise" /\ calls[2].outcome.kind = "raise") =>
          /\ results.validator.status = "error_recovered"
          /\ valid_json = FallbackJson("validator", calls[2].outcome.msg)
          /\ results.validator.response_json = valid_json
    /\ (Finished /\ Len(returned.calls) >= 2 /\ OutcomeOf(2).kind = "raise") =>
          /\ returned.state = "DONE"
          /\ returned.record.validator.status = "error_recovered"
          /\ returned.record.validator.response_json
                = FallbackJson("validator", OutcomeOf(2).msg)
          /\ Get(returned.record.validator.response_json, "final_recommendation")
                = <<"str", <<"request_expert">> >>
          /\ Len(returned.calls) = 3
          /\ returned.calls[3].agent = "conservative_advisor"
          /\ returned.calls[3].valid = FallbackJson("validator", OutcomeOf(2).msg)
          /\ "advisor" \in DOMAIN returned.record

C2_Witness ==
    /\ returned.state = "DONE"
    /\ OutcomeOf(2).kind = "raise"
    /\ OutcomeOf(3).kind = "text"

\* C3: when the diagnoser's model returns a text from which no record can be
\* extracted, the diagnoser entry has status 'json_error_recovered', its
\* payload is the diagnoser fallback record (sentinel diagnosis, confidence 1),
\* and the validator and the advisor are both invoked, the validator with that
\* fallback record.
C3_DiagExtractionRecovered ==
    (Finished /\ OutcomeOf(1).kind = "text" /\ Unextractable(OutcomeOf(1).text)) =>
       /\ returned.record.diagnoser.status = "json_error_recovered"
       /\ Get(returned.record.diagnoser.response_json, "primary_diagnosis")
             = <<"str", <<"Analysis failed - JSON parsing error">> >>
       /\ Get(returned.record.diagnoser.response_json, "primary_confidence")
             = <<"num", 1>>
       /\ Len(returned.calls) = 3
       /\ returned.calls[2].diag = returned.record.diagnoser.response_json

\* C4: when the validator's model returns a text from which no record can be
\* extracted, the validator entry has status 'json_error_recovered' (not
\* 'error_recovered'), its payload is the validator fallback record, and the
\* run goes on to the advisor.
C4_ValidExtractionRecovered ==
    (Finished /\ Len(returned.calls) >= 2 /\ OutcomeOf(2).kind = "text"
       /\ Unextractable(OutcomeOf(2).text)) =>
       /\ returned.record.validator.status = "json_error_recovered"
       /\ Get(returned.record.validator.response_json, "final_recommendation")
             = <<"str", <<"request_expert">> >>
       /\ Len(returned.calls) = 3

\* C5: a run returns without invoking the validator only when the diagnoser's
\* collaborator call itself failed: whenever that call returned a text,
\* whatever the text, the validator and the advisor are invoked.
C5_OnlyCallFailureAborts ==
    Finished =>
       /\ Len(returned.calls) < 2 => OutcomeOf(1).kind = "raise"
       /\ OutcomeOf(1).kind = "text" => Len(returned.calls) = 3

\* C6: if the advisor's collaborator call fails, the advisor entry has status
\* 'error' and no 'response', and the run still reaches DONE: the returned
\* record keeps the diagnoser and validator entries as they were and has its
\* total time set.
C6_AdvisorFailureStillDone ==
    [][(pc = "advise" /\ pc' = "idle"
          /\ returned'.calls[3].outcome.kind = "raise") =>
          /\ returned'.state = "DONE"
          /\ returned'.record.advisor.status = "error"
          /\ returned'.record.advisor.error = returned'.calls[3].outcome.msg
          /\ "response" \notin DOMAIN returned'.record.advisor
          /\ returned'.record.diagnoser = results.diagnoser
          /\ returned'.record.validator = results.validator
          /\ "total_time" \in DOMAIN returned'.record.metadata]_vars

C6_Witness ==
    /\ returned.state = "DONE"
    /\ OutcomeOf(3).kind = "raise"
    /\ returned.record.advisor.status = "error"

\* C7: for every error detail the diagnoser fallback has the nine
\* DiagnosisRecord fields, both confidences 1, correlation 'no_image', evidence
\* quality 'none', insufficient_evidence true and the other two flags false,
\* the fixed sentinel as primary diagnosis, and a diagnostic_reasoning that
\* carries the error detail unaltered.
C7_DiagFallbackShape ==
    (fb.pc = "done" /\ fb.agent_type = "diagnoser") =>
       /\ Keys(fb.out) = DiagnosisFields
       /\ Get(fb.out, "primary_confidence") = <<"num", 1>>
       /\ Get(fb.out, "alternative_confidence") = <<"num", 1>>
       /\ Get(fb.out, "image_text_correlation") = <<"str", <<"no_image">> >>
       /\ Get(fb.out, "visual_evidence_quality") = <<"str", <<"none">> >>
       /\ Get(Get(fb.out, "error_flags"), "insufficient_evidence") = <<"bool", TRUE>>
       /\ Get(Get(fb.out, "error_flags"), "equally_likely") = <<"bool", FALSE>>
       /\ Get(Get(fb.out, "error_flags"), "contradictory_symptoms")
             = <<"bool", FALSE>>
       /\ Get(fb.out, "primary_diagnosis")
             = <<"str", <<"Analysis failed - JSON parsing error">> >>
       /\ Get(fb.out, "diagnostic_reasoning")[1] = "str"
       /\ EndsWith(Get(fb.out, "diagnostic_reasoning")[2], fb.error_msg)

C7_Witness ==
    /\ fb.pc = "done"
    /\ fb.agent_type = "diagnoser"
    /\ Len(fb.error_msg) >= 2

\* C8: for every error detail the validator fallback has the nine
\* ValidationRecord fields, primary_diagnosis_valid false, adjustment -3,
\* evidence assessment 'weak', recommendation 'request_expert', and a
\* critical_concerns that carries the error detail unaltered.
C8_ValidFallbackShape ==
    (fb.pc = "done" /\ fb.agent_type = "validator") =>
       /\ Keys(fb.out) = ValidationFields
       /\ Get(fb.out, "primary_diagnosis_valid") = <<"bool", FALSE>>
       /\ Get(fb.out, "primary_confidence_adjustment") = <<"num", -3>>
       /\ Get(fb.out, "evidence_quality_assessment") = <<"str", <<"weak">> >>
       /\ Get(fb.out, "final_recommendation") = <<"str", <<"request_expert">> >>
       /\ Get(fb.out, "critical_concerns")[1] = "str"
       /\ EndsWith(Get(fb.out, "critical_concerns")[2], fb.error_msg)

C8_Witness ==
    /\ fb.pc = "done"
    /\ fb.agent_type = "validator"
    /\ Len(fb.error_msg) >= 2

IsBlank(q) == \A n \in 1..Len(q) : IsSpace(q[n])

IsProse(q) == \A n \in 1..Len(q) : q[n] \in {"a", " "}

\* C9 (P1): a text that, once trimmed, is itself a valid record is returned
\* as that record by the direct parse, and neither the brace-pattern scan nor
\* the marker step is reached.
C9_DirectParsePriority ==
    (ex.pc # "idle" /\ ex.isrec /\ IsBlank(ex.pre) /\ IsBlank(ex.post)) =>
       /\ ex.pc \in {"direct", "returned"}
       /\ ex.pc = "returned" =>
             /\ ex.out = Returned(ex.rec)
             /\ ex.steps = <<"direct">>

C9_Witness ==
    /\ ex.pc = "returned"
    /\ ex.isrec
    /\ ex.pre = <<" ">>
    /\ ex.post = <<" ">>
    /\ ex.rec = DeepRecord

\* C10 (P2): a text that holds exactly one valid record embedded in
\* surrounding prose yields that whole record, whatever the record: also one
\* nested more than two levels deep or with a brace inside a string value.
C10_ScrapeTolerance ==
    (ex.pc \in {"returned", "raised"} /\ ex.isrec
       /\ IsProse(ex.pre) /\ IsProse(ex.post)
       /\ ~(IsBlank(ex.pre) /\ IsBlank(ex.post))) =>
       ex.out = Returned(ex.rec)

\* the answer is wrapped in a fenced block tagged json, with or without prose
\* around the fence
JsonFenced(p, q) ==
    /\ p \in { Fence \o JsonTag \o <<" ">>,
               <<"a", " ">> \o Fence \o JsonTag \o <<" ">> }
    /\ q \in { <<" ">> \o Fence, <<" ">> \o Fence \o <<" ", "a">> }

\* C11 (P3): a text that wraps a valid record in a fenced block tagged json,
\* with or without prose before and after the fence, yields that record.
C11_FencedBlockTolerance ==
    (ex.pc \in {"returned", "raised"} /\ ex.isrec /\ JsonFenced(ex.pre, ex.post)) =>
       ex.out = Returned(ex.rec)

\* C12: whatever the three collaborator calls do (raise, or return any text,
\* one that is JSON but no object included), no exception leaves the
\* orchestrator: every run that ends has returned a result record holding at
\* least the metadata and the diagnoser's entry.
C12_NoFailureEscapes ==
    /\ returned.state \in {"NONE", "DONE", "ABORTED"}
    /\ Finished =>
          /\ {"metadata", "diagnoser"} \subseteq DOMAIN returned.record
          /\ "status" \in DOMAIN returned.record.diagnoser

C12_Witness ==
    /\ returned.state = "DONE"
    /\ OutcomeOf(1) = CollabReturns(<<"1">>)
    /\ OutcomeOf(2).kind = "text"
    /\ Unextractable(OutcomeOf(2).text)
    /\ OutcomeOf(3).kind = "raise"

\* C13: every run that returns, completed or aborted at the diagnosis stage,
\* returns a record whose metadata carry the problem description and the
\* overall elapsed time (total_time).
C13_AlwaysComplete ==
    Finished =>
       /\ "problem" \in DOMAIN returned.record.metadata
       /\ "total_time" \in DOMAIN returned.record.metadata

\* C13 (amended): every run that returns carries the problem description, and
\* carries total_time exactly when it completed: a run aborted at the diagnosis
\* stage returns before the total time is written.  The cli's total time is
\* the time the three calls took.
C13_TotalTimeIffDone ==
    Finished =>
       /\ returned.record.metadata.problem = returned.calls[1].problem
       /\ "total_time" \in DOMAIN returned.record.metadata
             <=> returned.state = "DONE"
       /\ (returned.state = "DONE" /\ app = "cli") =>
             returned.record.metadata.total_time = 3 * CallSeconds

C13_Witness ==
    /\ returned.state = "ABORTED"
    /\ "total_time" \notin DOMAIN returned.record.metadata
    /\ returned.record.metadata.problem = <<"spots">>
    /\ analysis_history # <<>>

\* C15: when no candidate parses, _extract_json raises json.JSONDecodeError,
\* the kind the orchestrator's recovery handler catches, and the failure
\* carries the first 200 characters at most of the original text.
C15_ExtractionFailureKind ==
    ex.pc = "raised" =>
       /\ ex.out.kind = "raise"
       /\ IsInstance(ex.out.exc, "JSONDecodeError")
       /\ ex.out.msg = <<"Could not extract valid JSON from: ">>
                         \o SubSeq(ex.text, 1, Min(Len(ex.text), PrefixLimit))
                         \o <<"...">>

\* the text holds no fenced block
NoFence(text) == \A i \in 1..Len(text) : ~IsFenceAt(text, i)

\* the record that the span from the first open brace to the last close brace
\* of the text parses to
SpanRecord(text) ==
    IF SpanFound(text) THEN Loads(Strip(SpanText(text))) ELSE NotFound

\* C16: in the third step the candidates are the json-tagged fence, any fence
\* and the span from the first open brace to the last close brace, in that
\* order; a text without a fenced block whose only candidate that parses is
\* that span yields the record parsed from the span.
C16_SpanCandidate ==
    (ex.pc \in {"returned", "raised"} /\ NoFence(ex.text)
       /\ ~DirectStep(ex.text).ok /\ ~ScanStep(ex.text).ok
       /\ SpanRecord(ex.text).ok) =>
       ex.out = Returned(SpanRecord(ex.text).val)

\* C17: whenever _extract_json returns, the value is a JSON object (a
\* mapping), never a bare number, string, boolean or null.
C17_ReturnsMapping ==
    ex.pc = "returned" => ex.out.val[1] = "obj"

\* C19: whenever the collaborator returned a text for the diagnosis or the
\* validation stage, the stage's entry keeps that text as response_text,
\* whatever status the stage ends with.
C19_ResponseTextRetained ==
    Finished =>
       /\ OutcomeOf(1).kind = "text" =>
             /\ "response_text" \in DOMAIN returned.record.diagnoser
             /\ returned.record.diagnoser.response_text = OutcomeOf(1).text
       /\ (Len(returned.calls) >= 2 /\ OutcomeOf(2).kind = "text") =>
             /\ "response_text" \in DOMAIN returned.record.validator
             /\ returned.record.validator.response_text = OutcomeOf(2).text

\* C20: every call of analyze_plant_problem on one LocalMiniPestMA instance,
\* ended DONE or ABORTED, appends its record to analysis_history exactly once:
\* after n calls the history has n entries, the last one the record returned.
C20_HistoryAppendOnce ==
    (app = "cli" /\ pc = "idle") =>
       /\ Len(analysis_history) = runs
       /\ runs > 0 => analysis_history[runs] = returned.record

\* the entry carries a payload under a status other than 'success'
Unsuccessful(entry) ==
    /\ entry.status # "success"
    /\ "response_json" \in DOMAIN entry

\* C18: in every record the orchestrator returns, a diagnoser payload under a
\* status other than 'success' is the diagnoser fallback (the nine fields,
\* primary_confidence 1, insufficient_evidence true), and a validator payload
\* under a status other than 'success' has primary_confidence_adjustment -3
\* and final_recommendation 'request_expert'.
C18_CautionBias ==
    Finished =>
       /\ Unsuccessful(returned.record.diagnoser) =>
             /\ Keys(returned.record.diagnoser.response_json) = DiagnosisFields
             /\ Get(returned.record.diagnoser.response_json,
                    "primary_confidence") = <<"num", 1>>
             /\ Get(Get(returned.record.diagnoser.response_json, "error_flags"),
                    "insufficient_evidence") = <<"bool", TRUE>>
       /\ ("validator" \in DOMAIN returned.record
             /\ Unsuccessful(returned.record.validator)) =>
             /\ Get(returned.record.validator.response_json,
                    "primary_confidence_adjustment") = <<"num", -3>>
             /\ Get(returned.record.validator.response_json,
                    "final_recommendation") = <<"str", <<"request_expert">> >>

C18_Witness ==
    /\ returned.state = "DONE"
    /\ OutcomeOf(2).kind = "text"
    /\ Unsuccessful(returned.record.validator)
    /\ returned.record.diagnoser.status = "success"

\* what reading the saved file gives for the payload of a stage
SavedPayload(stage) == Get(Get(sv.back.val, stage), "response_json")

\* C14: writing a returned record the way save_analysis does (json.dump,
\* indent 2) and parsing the file back gives a document with the same field
\* names in the same order and identical values: the payloads of the
\* diagnoser and of the validator are read back field for field, and the text
\* of the advisor character for character.
C14_RoundTrip ==
    sv.pc = "loaded" =>
       /\ sv.back.ok
       /\ sv.back.val = DictValue(returned.record)
       /\ "response_json" \in DOMAIN returned.record.diagnoser =>
             SavedPayload("diagnoser") = returned.record.diagnoser.response_json
       /\ ("validator" \in DOMAIN returned.record
             /\ "response_json" \in DOMAIN returned.record.validator) =>
             SavedPayload("validator") = returned.record.validator.response_json
       /\ ("advisor" \in DOMAIN returned.record
             /\ "response" \in DOMAIN returned.record.advisor) =>
             Get(Get(sv.back.val, "advisor"), "response")
                = <<"str", returned.record.advisor.response>>

\* a finished run was saved by the web app and read back: the validator's
\* payload holds a string with a quote, a newline and a backslash, and the
\* advisor's text a non-ASCII character
C14_Witness ==
    /\ sv.pc = "loaded"
    /\ app = "web"
    /\ returned.state = "DONE"
    /\ returned.record.validator.status = "success"
    /\ Get(returned.record.validator.response_json, "a")
          = <<"str", <<QUOTE, NEWLINE, EACUTE, BACKSLASH>> >>
    /\ returned.record.advisor.status = "success"
    /\ \E n \in 1..Len(returned.record.advisor.response) :
          returned.record.advisor.response[n] = EACUTE

\* the history h as it was is the beginning of the history g as it is
IsPrefix(h, g) == Len(h) <= Len(g) /\ SubSeq(g, 1, Len(h)) = h

\* C21 (as stated): the history is append-only: every step of the program,
\* the reset button of the web session included, leaves every earlier history
\* a prefix of the later one.
C21_AppendOnly ==
    [][IsPrefix(analysis_history, analysis_history')]_vars

\* C21 (amended): every step other than the web session's reset leaves the
\* earlier history a prefix of the later one, entries unaltered; the reset
\* empties the history together with the count, and only in the web session.
C21_AppendOnlyBetweenResets ==
    [][\/ IsPrefix(analysis_history, analysis_history')
       \/ /\ ResetSession
          /\ app = "web"
          /\ analysis_history' = <<>>
          /\ analysis_count' = 0]_vars

\* a web session whose only entry is of a run started after an earlier run's
\* call: the earlier entry was reset away and the history grew again
C21_Witness ==
    /\ app = "web"
    /\ pc = "idle"
    /\ Len(analysis_history) = 1
    /\ analysis_history[1].metadata.timestamp > 0
    /\ analysis_history[1] = returned.record

\* the agents of a sequence of collaborator invocations, in order
AgentsOf(cs) == [n \in 1..Len(cs) |-> cs[n].agent]

\* the order in which the orchestrator's code reaches its three calls
StageOrder ==
    <<"critical_diagnoser", "skeptical_validator", "conservative_advisor">>

\* C22: within one run the collaborator invocations are a prefix of
\* diagnoser, validator, advisor, each stage's collaborator invoked at most
\* once whatever the call or the extraction did; the validator is invoked only
\* when the diagnosis stage has resolved to a record, and the advisor only
\* when the validation stage has left its entry.
C22_CallOrder ==
    /\ IsPrefix(AgentsOf(calls), StageOrder)
    /\ IsPrefix(AgentsOf(returned.calls), StageOrder)
    /\ Len(calls) >= 1 =>
          /\ "diagnoser" \in DOMAIN results
          /\ results.diagnoser.status \in {"success", "json_error_recovered"}
    /\ Len(calls) >= 2 => "validator" \in DOMAIN results
    /\ Len(returned.calls) >= 2 =>
          returned.record.diagnoser.status \in {"success", "json_error_recovered"}
    /\ Len(returned.calls) >= 3 => "validator" \in DOMAIN returned.record

\* a run that made all three calls although the validator's call failed
C22_Witness ==
    /\ returned.state = "DONE"
    /\ AgentsOf(returned.calls) = StageOrder
    /\ returned.calls[2].outcome.kind = "raise"

\* the record that the text inside a prompt holds
PromptRecord(text) == Loads(text).val

\* C23: the diagnosis record that the validator's and the advisor's prompt
\* hold is the payload stored under the returned diagnoser entry (the model's
\* or the fallback), and the validation record that the advisor's prompt
\* holds is the payload stored under the returned validator entry (the
\* model's or either fallback).
C23_StatePropagation ==
    Finished =>
       /\ Len(returned.calls) >= 2 =>
             /\ Loads(PromptTexts(returned.calls[2]).diag).ok
             /\ PromptRecord(PromptTexts(returned.calls[2]).diag)
                   = returned.record.diagnoser.response_json
       /\ Len(returned.calls) >= 3 =>
             /\ PromptTexts(returned.calls[3]).diag
                   = PromptTexts(returned.calls[2]).diag
             /\ Loads(PromptTexts(returned.calls[3]).valid).ok
             /\ PromptRecord(PromptTexts(returned.calls[3]).valid)
                   = returned.record.validator.response_json

\* a finished run whose validator call failed and whose advisor was called:
\* the advisor's prompt holds the collaborator-failure fallback
C23_Witness ==
    /\ returned.state = "DONE"
    /\ Len(returned.calls) = 3
    /\ returned.record.validator.status = "error_recovered"
    /\ returned.record.diagnoser.status = "success"
    /\ PromptRecord(PromptTexts(returned.calls[3]).valid)
          = FallbackJson("validator", OutcomeOf(2).msg)

\* the stage entry is the success entry around the record that _extract_json
\* returned for the collaborator's text, the record unchanged
KeptAsParsed(entry, text) ==
    /\ entry.status = "success"
    /\ entry.response_json = Extracted[text].val
    /\ entry.response_text = text
    /\ "error" \notin DOMAIN entry

\* C24: extraction checks syntax only and a parse is final: whenever
\* _extract_json returns a record for a stage's text, be the record empty,
\* without any schema field or with a confidence outside its range, the stage
\* ends with status 'success' and that record as its payload, and no fallback
\* record takes its place.
C24_LenientSuccess ==
    Finished =>
       /\ (OutcomeOf(1).kind = "text"
             /\ Extracted[OutcomeOf(1).text].kind = "return") =>
             KeptAsParsed(returned.record.diagnoser, OutcomeOf(1).text)
       /\ (Len(returned.calls) >= 2 /\ OutcomeOf(2).kind = "text"
             /\ Extracted[OutcomeOf(2).text].kind = "return") =>
             KeptAsParsed(returned.record.validator, OutcomeOf(2).text)

\* a finished run whose diagnoser answered a confidence of 99 and whose
\* validator answered the empty record
C24_Witness ==
    /\ returned.state = "DONE"
    /\ returned.record.diagnoser.response_json
          = Obj1(<<"primary_confidence">>, <<"num", 99>>)
    /\ returned.record.validator.response_json = <<"obj", <<>> >>
    /\ returned.record.validator.status = "success"

\* records written without nesting, each a brace-delimited text that parses
SeparateRecords ==
    { Obj1(<<"a">>, l) : l \in Leaves } \cup { Obj1(<<"j">>, <<"num", 1>>) }

\* the pairs of records that text holds one after the other, between what
\* the model wrote before and after them
TwoRecords(text) ==
    { pair \in SeparateRecords \X SeparateRecords :
        \E p \in Prefixes, q \in Suffixes :
           text = p \o JsonText(pair[1], <<>>) \o <<" ">>
                    \o JsonText(pair[2], <<>>) \o q }

\* the records that text holds after a brace-delimited text that does not parse
AfterUnparsed(text) ==
    { r \in SeparateRecords :
        \E p \in Prefixes, q \in Suffixes :
           text = p \o <<LBRACE, "a", RBRACE, " ">> \o JsonText(r, <<>>) \o q }

\* C25: first match wins in the brace scan: for a text that holds two separate
\* brace-delimited records _extract_json returns the left one, and after a
\* brace-delimited text that does not parse it returns the record to its
\* right.
C25_FirstMatchWins ==
    (ex.pc \in {"returned", "raised"} /\ ~ex.isrec) =>
       /\ \A pair \in TwoRecords(ex.text) : ex.out = Returned(pair[1])
       /\ \A r \in AfterUnparsed(ex.text) : ex.out = Returned(r)

\* the outcomes of the collaborator calls an activation made
OutcomesOf(f) == [n \in 1..Len(f.calls) |-> f.calls[n].outcome]

\* the record of stages 2 and 3 run one after the other on res
AloneFromValidator(res, outs) ==
    [Put(Put(res, "validator", ResolveValid(outs[2], CallSeconds).entry),
         "advisor", ResolveAdvise(outs[3], CallSeconds))
       EXCEPT !.metadata = Put(@, "total_time", 3 * CallSeconds)]

\* the record of the three stages run one after the other, the diagnosis
\* stage having resolved as x
AloneFromDiagnoser(res, x, outs) ==
    IF x.abort THEN Put(res, "diagnoser", x.entry)
    ELSE AloneFromValidator(Put(res, "diagnoser", x.entry), outs)

\* what analyze_plant_problem(d) entered at time start returns when nothing
\* else runs and the collaborator does outs
RecordAlone(d, start, outs) ==
    AloneFromDiagnoser([metadata |-> [timestamp |-> start, problem |-> d]],
                       ResolveDiag(outs[1], CallSeconds), outs)

C27_DisplayCrashProof ==
    sv.pc \in {"displayed", "crashed"} => sv.display = ""

\* C28: in every record either orchestrator returns, the stage entries are
\* prefix-closed and the validator never ends in status 'error': an advisor
\* entry only with a validator entry, a validator entry only with a diagnoser
\* entry of status success or json_error_recovered, and every validator entry
\* has a status in {success, json_error_recovered, error_recovered} and a
\* response_json payload.
StagesPrefixClosed(r) ==
    /\ "advisor" \in DOMAIN r => "validator" \in DOMAIN r
    /\ "validator" \in DOMAIN r =>
          /\ "diagnoser" \in DOMAIN r
          /\ r.diagnoser.status \in {"success", "json_error_recovered"}
          /\ r.validator.status \in {"success", "json_error_recovered",
                                     "error_recovered"}
          /\ "response_json" \in DOMAIN r.validator

C28_StageEntries ==
    returned.state \in {"DONE", "ABORTED"} =>
        StagesPrefixClosed(returned.record)

\* a completed run whose validator call failed
C28_Witness ==
    /\ returned.state = "DONE"
    /\ "advisor" \in DOMAIN returned.record
    /\ returned.record.validator.status = "error_recovered"
    /\ StagesPrefixClosed(returned.record)

\* C29: after any sequence of calls to analyze_plant_problem on one cli
\* instance, every entry of analysis_history has a diagnoser status of success
\* or json_error_recovered, a validator entry, an advisor entry and
\* metadata.total_time; get_performance_summary counts at least two successful
\* stages for it and never classifies it as failed.
CompletedEntry(a) ==
    /\ "diagnoser" \in DOMAIN a
    /\ a.diagnoser.status \in {"success", "json_error_recovered"}
    /\ "validator" \in DOMAIN a
    /\ "advisor" \in DOMAIN a
    /\ "total_time" \in DOMAIN a.metadata
    /\ SuccessCount(a) >= 2
    /\ Classification(a) # "failed"

C29_HistoryEntriesCompleted ==
    app = "cli" =>
        \A i \in DOMAIN analysis_history : CompletedEntry(analysis_history[i])

\* an aborted call after a completed one whose advisor call failed
C29_Witness ==
    /\ app = "cli"
    /\ returned.state = "ABORTED"
    /\ Len(analysis_history) = 1
    /\ analysis_history[1].advisor.status = "error"
    /\ Classification(analysis_history[1]) = "partial_success"

\* C30: in the web session, after any sequence of submissions (blank or not,
\* completing or aborting) and resets, analysis_count equals the number of
\* entries of analysis_history.
C30_CountIsHistoryLength ==
    app = "web" => analysis_count = Len(analysis_history)

\* two submissions, the last one aborting, that left one entry: the other
\* was blank, raised, or was removed by a reset
C30_Witness ==
    /\ app = "web"
    /\ runs = 2
    /\ returned.state = "ABORTED"
    /\ analysis_count = 1
    /\ Len(analysis_history) = 1
    /\ "validator" \notin DOMAIN analysis_history[1]

=============================================================================
